---- MODULE Spec2Model ----
(***************************************************************************)
(* CloudSQLite: the Lambda handler (lambda/main.go) that serialises a      *)
(* download / execute / upload cycle on an SQLite file kept in S3 behind a *)
(* lease record kept in DynamoDB.                                          *)
(*                                                                         *)
(* Time is counted in ticks of 1/TicksPerSec second, so that the           *)
(* truncation of time.Now().Unix() to whole seconds is visible.            *)
(***************************************************************************)
EXTENDS Integers, Sequences, FiniteSets, TLC

(* ---------------------------- bounds ----------------------------------- *)
NumWorkers == 2          \* concurrent Handler invocations
TicksPerSec == 2         \* clock resolution below one second
MaxAdvances == 2         \* how many times the clock moves in one behaviour
MaxLead == 2             \* pieces of white space or comment before a statement
NumProcs == 2            \* processes running the local program
MaxTicks == 2            \* how many times the local clock moves in one behaviour
MaxRequests == 3         \* largest config.TotalRequests of the load generator
MaxConcurrency == 2      \* largest config.Concurrency of the load generator

(* ------------------------ program constants ---------------------------- *)
lockTimeoutMinutes == 5
SecondsPerMinute == 60
LambdaTimeout == 300
dbFileName == "database.db"
lockTimeout == 30

Workers == 1..NumWorkers
Resources == {dbFileName, "t.db"}
Statements == {"", "SELECT", "INSERT", "INVALID"}

NoItem == [none |-> TRUE]      \* GetItem returned no item / no record in the table
NoObject == [absent |-> TRUE]  \* no such key in the bucket
NoFile == [nofile |-> TRUE]    \* no local working copy
Partial == [partial |-> TRUE]  \* local file created but not completely written
NoRequest == [norequest |-> TRUE]

\* request bodies: one that is not JSON, and every JSON body over the small sets
BadJSON == [valid |-> FALSE, sql_statement |-> "", database_name |-> ""]
Requests ==
  {BadJSON} \cup [valid : {TRUE}, sql_statement : Statements,
                  database_name : Resources \cup {""}]

\* a database file: the set of invocations whose INSERT it contains
Database(rows) == [rows |-> rows]

LeaseTicks == lockTimeoutMinutes * SecondsPerMinute * TicksPerSec
Jumps == {1, LeaseTicks - 1}

\* The behaviours start one second after a lease taken at time 0 has run out.
Epoch == LeaseTicks + TicksPerSec

VARIABLES
  clk,          \* wall clock, in ticks
  adv,          \* number of clock advances so far
  lockTable,    \* DynamoDB table CloudSQLite-Locks: database_name -> item
  bucket,       \* S3 bucket: key -> object content
  pc,           \* where each invocation is
  req,          \* apiReq of each invocation (after the default database name)
  started,      \* tick at which the invocation started
  instanceID,   \* instanceID of each invocation
  existing,     \* existingLock read by GetItem
  leaseTimeout, \* leaseTimeout computed for the new item
  localFile,    \* content of /tmp/<database> in the invocation's environment
  status,       \* StatusCode of the response (0: none yet)
  acqRes,       \* outcome of acquireDynamoLock
  delRes,       \* outcome of the releaseDynamoLock call made by acquireDynamoLock
  relRes,       \* outcome of the deferred releaseDynamoLock
  failedAt,     \* the step of the cycle that failed
  gen,          \* history: number of successful PutItems per database_name
  genSeen       \* history: gen of the database when GetItem answered

vars == <<clk, adv, lockTable, bucket, pc, req, started, instanceID, existing,
          leaseTimeout, localFile, status, acqRes, delRes, relRes, failedAt,
          gen, genSeen>>

wvars == <<pc, req, started, instanceID, existing, leaseTimeout, localFile,
           status, acqRes, delRes, relRes, failedAt, gen, genSeen>>

\* the local program (main.go): a lock file and a database file in ./s3_storage
VARIABLES
  now,          \* wall clock of the machine, in seconds
  ticks,        \* number of clock advances so far
  lockJSON,     \* content of s3_storage/lock.json
  storeDB,      \* content of s3_storage/test.db
  tempDB,       \* content of ./temp_test.db
  ppc,          \* where each process is
  lockInfo,     \* lockInfo read by checkLockValidity
  stamp,        \* Timestamp of the lockInfo the process is about to write
  exit          \* how the process ended

mvars == <<now, ticks, lockJSON, storeDB, tempDB, ppc, lockInfo, stamp, exit>>

\* executeSQL taken alone: a statement as text and what is returned for it
VARIABLES
  sqlStatement, \* the statement, a sequence of characters
  sqlResult     \* what executeSQL returned

evars == <<sqlStatement, sqlResult>>

\* the load generator (load_test.go): runLoadTest and its goroutines
VARIABLES
  config,       \* LoadTestConfig: TotalRequests and Concurrency
  lpc,          \* where runLoadTest is
  loopI,        \* i of the loop that starts the goroutines
  gpc,          \* where each goroutine is
  semaphore,    \* number of elements in the channel semaphore
  wg,           \* counter of the WaitGroup
  mutex,        \* the goroutine that holds the mutex (0: unlocked)
  results,      \* the slice results
  result,       \* result of each goroutine
  snapshot,     \* the slice as append read it
  summary       \* what runLoadTest returns

lvars == <<config, lpc, loopI, gpc, semaphore, wg, mutex, results, result,
           snapshot, summary>>

(* ------------------------------ time ----------------------------------- *)
\* time.Now().Unix(): whole seconds
Unix(t) == t \div TicksPerSec

\* time.Now().UnixNano(), at the resolution of the model's clock
UnixNano(t) == t

\* now.Add(lockTimeoutMinutes * time.Minute).Unix()
LeaseTimeoutAt(t) == Unix(t + LeaseTicks)

\* a validity test that looks at the wrong attribute
LeaseValidByCreation(item, t) == item.created_at > Unix(t)

\* a validity test that never lets a lease run out
LeaseValidForever(item, t) == TRUE

\* existingLock.LeaseTimeout > currentTime
LeaseStillValid(item, t) == item.lease_timeout > Unix(t)

\* The Lambda runtime stops an invocation LambdaTimeout seconds after its start.
Alive(w) == clk < started[w] + LambdaTimeout * TicksPerSec

(* --------------------------- lock store -------------------------------- *)
\* lockItem := LockItem{...}; CreatedAt is now.Unix() of the same now
LockItem(db, id, lease) ==
  [database_name |-> db, instance_id |-> id, lease_timeout |-> lease,
   created_at |-> lease - lockTimeoutMinutes * SecondsPerMinute]

\* the item an earlier invocation, started at time 0, left behind when it
\* stopped without releasing
LeftBehind(db) == LockItem(db, 0, lockTimeoutMinutes * SecondsPerMinute)

\* a PutItem without its condition
PutUnconditional(tbl, db) == TRUE

\* ConditionExpression of PutItem: attribute_not_exists(database_name)
PutCondition(tbl, db) == tbl[db] = NoItem

\* a DeleteItem that removes the item whoever holds it
DeleteAnyHolder(tbl, db, id) == tbl[db] # NoItem

\* ConditionExpression of DeleteItem: instance_id = :instance_id
DeleteCondition(tbl, db, id) == tbl[db] # NoItem /\ tbl[db].instance_id = id

\* DynamoDB TTL on lease_timeout: an item is expired once the attribute is
\* less than the current epoch time.
TTLExpired(item, t) == item.lease_timeout < Unix(t)

(* ------------------------- statement executor -------------------------- *)
\* isSelect := len(sqlStatement) > 6 && sqlStatement[:6] == "SELECT"
IsSelect(sql) == sql = "SELECT"

\* the engine rejects the statement
EngineRejects(sql) == sql = "INVALID"

\* an executor that writes to the file whatever the statement is
ExecutedRewrites(content, sql, w) == Database(content.rows \cup {w})

\* content of the database file after the statement ran
Executed(content, sql, w) ==
  IF sql = "INSERT" THEN Database(content.rows \cup {w}) ELSE content

(* ------------------------------ Init ----------------------------------- *)
\* the local program: no process has started, ./s3_storage is empty
MainInit ==
  /\ now = 0
  /\ ticks = 0
  /\ lockJSON = NoFile
  /\ storeDB = NoFile
  /\ tempDB = NoFile
  /\ ppc = [p \in 1..NumProcs |-> "start"]
  /\ lockInfo = [p \in 1..NumProcs |-> NoFile]
  /\ stamp = [p \in 1..NumProcs |-> 0]
  /\ exit = [p \in 1..NumProcs |-> "none"]

\* executeSQL has not been called
ExecInit ==
  /\ sqlStatement = <<>>
  /\ sqlResult = "none"

\* a goroutine has no result yet
NoResult == [noresult |-> TRUE]

\* LoadTestSummary{}
NoSummary == [TotalRequests |-> 0, SuccessfulRequests |-> 0, FailedRequests |-> 0]

\* runLoadTest has not been called
LoadInit ==
  /\ config = [TotalRequests |-> 0, Concurrency |-> 0]
  /\ lpc = "start"
  /\ loopI = 0
  /\ gpc = [g \in 1..MaxRequests |-> "none"]
  /\ semaphore = 0
  /\ wg = 0
  /\ mutex = 0
  /\ results = <<>>
  /\ result = [g \in 1..MaxRequests |-> NoResult]
  /\ snapshot = [g \in 1..MaxRequests |-> <<>>]
  /\ summary = NoSummary

Init ==
  /\ clk = Epoch
  /\ adv = 0
  /\ \E left \in BOOLEAN :
       lockTable = [r \in Resources |->
                      IF left /\ r = dbFileName THEN LeftBehind(r) ELSE NoItem]
  /\ bucket = [r \in Resources |-> IF r = dbFileName THEN Database({}) ELSE NoObject]
  /\ pc = [w \in Workers |-> "idle"]
  /\ req = [w \in Workers |-> NoRequest]
  /\ started = [w \in Workers |-> 0]
  /\ instanceID = [w \in Workers |-> 0]
  /\ existing = [w \in Workers |-> NoItem]
  /\ leaseTimeout = [w \in Workers |-> 0]
  /\ localFile = [w \in Workers |-> NoFile]
  /\ status = [w \in Workers |-> 0]
  /\ acqRes = [w \in Workers |-> "none"]
  /\ delRes = [w \in Workers |-> "none"]
  /\ relRes = [w \in Workers |-> "none"]
  /\ failedAt = [w \in Workers |-> "none"]
  /\ gen = [r \in Resources |-> 0]
  /\ genSeen = [w \in Workers |-> 0]
  /\ MainInit
  /\ ExecInit
  /\ LoadInit

(* ----------------------------- Handler --------------------------------- *)
\* a Handler that looks at the statement only after the acquire: every
\* body that is JSON goes on to acquireDynamoLock
InvokeValidatesLate(w, body) ==
  /\ pc[w] = "idle"
  /\ \A v \in Workers : v < w => pc[v] # "idle"
  /\ started' = [started EXCEPT ![w] = clk]
  /\ IF ~body.valid
       THEN /\ req' = [req EXCEPT ![w] = [sql_statement |-> "", database_name |-> ""]]
            /\ status' = [status EXCEPT ![w] = 400]
            /\ pc' = [pc EXCEPT ![w] = "done"]
            /\ UNCHANGED instanceID
       ELSE LET db == IF body.database_name = "" THEN dbFileName ELSE body.database_name
            IN /\ req' = [req EXCEPT ![w] = [sql_statement |-> body.sql_statement,
                                             database_name |-> db]]
               /\ instanceID' = [instanceID EXCEPT ![w] = UnixNano(clk)]
               /\ pc' = [pc EXCEPT ![w] = "get"]
               /\ UNCHANGED status
  /\ UNCHANGED <<clk, adv, lockTable, bucket, existing, leaseTimeout, localFile,
                 acqRes, delRes, relRes, failedAt, gen, genSeen>>
  /\ UNCHANGED <<mvars, evars, lvars>>

\* Handler, from the parse of the body to the generation of instanceID.
Invoke(w, body) ==
  /\ pc[w] = "idle"
  /\ \A v \in Workers : v < w => pc[v] # "idle"   \* invocations are numbered in order of arrival
  /\ started' = [started EXCEPT ![w] = clk]
  /\ IF ~body.valid
       THEN /\ req' = [req EXCEPT ![w] = [sql_statement |-> "", database_name |-> ""]]
            /\ status' = [status EXCEPT ![w] = 400]
            /\ pc' = [pc EXCEPT ![w] = "done"]
            /\ UNCHANGED instanceID
       ELSE LET db == IF body.database_name = "" THEN dbFileName ELSE body.database_name
            IN /\ req' = [req EXCEPT ![w] = [sql_statement |-> body.sql_statement,
                                             database_name |-> db]]
               /\ IF body.sql_statement = ""
                    THEN /\ status' = [status EXCEPT ![w] = 400]
                         /\ pc' = [pc EXCEPT ![w] = "done"]
                         /\ UNCHANGED instanceID
                    ELSE /\ instanceID' = [instanceID EXCEPT ![w] = UnixNano(clk)]
                         /\ pc' = [pc EXCEPT ![w] = "get"]
                         /\ UNCHANGED status
  /\ UNCHANGED <<clk, adv, lockTable, bucket, existing, leaseTimeout, localFile,
                 acqRes, delRes, relRes, failedAt, gen, genSeen>>
  /\ UNCHANGED <<mvars, evars, lvars>>

\* a Handler that answers an acquire error like a failure of the cycle
AcquireErrorInternal(w, kind) ==
  /\ acqRes' = [acqRes EXCEPT ![w] = kind]
  /\ status' = [status EXCEPT ![w] = 500]
  /\ pc' = [pc EXCEPT ![w] = "done"]

\* acquireDynamoLock returned an error: Handler answers 409 and returns
\* before the release is deferred.
AcquireError(w, kind) ==
  /\ acqRes' = [acqRes EXCEPT ![w] = kind]
  /\ status' = [status EXCEPT ![w] = 409]
  /\ pc' = [pc EXCEPT ![w] = "done"]

\* a GetItem that always reads the item of the default database
GetItemDefaultKey(w) ==
  /\ pc[w] = "get" /\ Alive(w)
  /\ existing' = [existing EXCEPT ![w] = lockTable[dbFileName]]
  /\ genSeen' = [genSeen EXCEPT ![w] = gen[req[w].database_name]]
  /\ pc' = [pc EXCEPT ![w] = IF lockTable[dbFileName] = NoItem THEN "mk" ELSE "check"]
  /\ UNCHANGED <<clk, adv, lockTable, bucket, req, started, instanceID, leaseTimeout,
                 localFile, status, acqRes, delRes, relRes, failedAt, gen>>
  /\ UNCHANGED <<mvars, evars, lvars>>

\* dynamoClient.GetItem succeeds
GetItem(w) ==
  /\ pc[w] = "get" /\ Alive(w)
  /\ existing' = [existing EXCEPT ![w] = lockTable[req[w].database_name]]
  /\ genSeen' = [genSeen EXCEPT ![w] = gen[req[w].database_name]]
  /\ pc' = [pc EXCEPT ![w] = IF lockTable[req[w].database_name] = NoItem
                              THEN "mk" ELSE "check"]
  /\ UNCHANGED <<clk, adv, lockTable, bucket, req, started, instanceID, leaseTimeout,
                 localFile, status, acqRes, delRes, relRes, failedAt, gen>>
  /\ UNCHANGED <<mvars, evars, lvars>>

\* dynamoClient.GetItem fails
GetItemFail(w) ==
  /\ pc[w] = "get" /\ Alive(w)
  /\ AcquireError(w, "check")
  /\ UNCHANGED <<clk, adv, lockTable, bucket, req, started, instanceID, existing,
                 leaseTimeout, localFile, delRes, relRes, failedAt, gen, genSeen>>
  /\ UNCHANGED <<mvars, evars, lvars>>

\* an acquire that polls the lock again when the lease is still valid
CheckExistingRetries(w) ==
  /\ pc[w] = "check" /\ Alive(w)
  /\ pc' = [pc EXCEPT ![w] = IF LeaseStillValid(existing[w], clk) THEN "get" ELSE "del"]
  /\ UNCHANGED <<clk, adv, lockTable, bucket, req, started, instanceID, existing,
                 leaseTimeout, localFile, status, acqRes, delRes, relRes, failedAt,
                 gen, genSeen>>
  /\ UNCHANGED <<mvars, evars, lvars>>

\* an acquire that removes the item by which it is refused
CheckExistingClears(w) ==
  /\ pc[w] = "check" /\ Alive(w)
  /\ IF LeaseStillValid(existing[w], clk)
       THEN /\ AcquireError(w, "locked")
            /\ lockTable' = [lockTable EXCEPT ![req[w].database_name] = NoItem]
       ELSE /\ pc' = [pc EXCEPT ![w] = "del"]
            /\ UNCHANGED <<acqRes, status, lockTable>>
  /\ UNCHANGED <<clk, adv, bucket, req, started, instanceID, existing,
                 leaseTimeout, localFile, delRes, relRes, failedAt, gen, genSeen>>
  /\ UNCHANGED <<mvars, evars, lvars>>

\* the item exists: currentTime is read and compared with its lease
CheckExisting(w) ==
  /\ pc[w] = "check" /\ Alive(w)
  /\ IF LeaseStillValid(existing[w], clk)
       THEN AcquireError(w, "locked")
       ELSE /\ pc' = [pc EXCEPT ![w] = "del"]
            /\ UNCHANGED <<acqRes, status>>
  /\ UNCHANGED <<clk, adv, lockTable, bucket, req, started, instanceID, existing,
                 leaseTimeout, localFile, delRes, relRes, failedAt, gen, genSeen>>
  /\ UNCHANGED <<mvars, evars, lvars>>

\* releaseDynamoLock(databaseName, existingLock.InstanceID): the conditional
\* DeleteItem of the expired item; its error is only logged.
DeleteExpired(w) ==
  /\ pc[w] = "del" /\ Alive(w)
  /\ LET db == req[w].database_name
     IN IF DeleteCondition(lockTable, db, existing[w].instance_id)
          THEN /\ lockTable' = [lockTable EXCEPT ![db] = NoItem]
               /\ delRes' = [delRes EXCEPT ![w] = "ok"]
          ELSE /\ delRes' = [delRes EXCEPT ![w] = "failed"]
               /\ UNCHANGED lockTable
  /\ pc' = [pc EXCEPT ![w] = "mk"]
  /\ UNCHANGED <<clk, adv, bucket, req, started, instanceID, existing, leaseTimeout,
                 localFile, status, acqRes, relRes, failedAt, gen, genSeen>>
  /\ UNCHANGED <<mvars, evars, lvars>>

\* the DeleteItem of the expired item fails in the store
DeleteExpiredFail(w) ==
  /\ pc[w] = "del" /\ Alive(w)
  /\ delRes' = [delRes EXCEPT ![w] = "error"]
  /\ pc' = [pc EXCEPT ![w] = "mk"]
  /\ UNCHANGED <<clk, adv, lockTable, bucket, req, started, instanceID, existing,
                 leaseTimeout, localFile, status, acqRes, relRes, failedAt, gen, genSeen>>
  /\ UNCHANGED <<mvars, evars, lvars>>

\* now := time.Now(); leaseTimeout := now.Add(...).Unix()
MakeItem(w) ==
  /\ pc[w] = "mk" /\ Alive(w)
  /\ leaseTimeout' = [leaseTimeout EXCEPT ![w] = LeaseTimeoutAt(clk)]
  /\ pc' = [pc EXCEPT ![w] = "put"]
  /\ UNCHANGED <<clk, adv, lockTable, bucket, req, started, instanceID, existing,
                 localFile, status, acqRes, delRes, relRes, failedAt, gen, genSeen>>
  /\ UNCHANGED <<mvars, evars, lvars>>

\* dynamoClient.PutItem with its condition
PutItem(w) ==
  /\ pc[w] = "put" /\ Alive(w)
  /\ LET db == req[w].database_name
     IN IF PutCondition(lockTable, db)
          THEN /\ lockTable' = [lockTable EXCEPT ![db] =
                                   LockItem(db, instanceID[w], leaseTimeout[w])]
               /\ gen' = [gen EXCEPT ![db] = @ + 1]
               /\ acqRes' = [acqRes EXCEPT ![w] = "ok"]
               /\ pc' = [pc EXCEPT ![w] = "download"]
               /\ UNCHANGED status
          ELSE /\ AcquireError(w, "race")
               /\ UNCHANGED <<lockTable, gen>>
  /\ UNCHANGED <<clk, adv, bucket, req, started, instanceID, existing, leaseTimeout,
                 localFile, delRes, relRes, failedAt, genSeen>>
  /\ UNCHANGED <<mvars, evars, lvars>>

\* dynamoClient.PutItem fails in the store
PutItemFail(w) ==
  /\ pc[w] = "put" /\ Alive(w)
  /\ AcquireError(w, "puterr")
  /\ UNCHANGED <<clk, adv, lockTable, bucket, req, started, instanceID, existing,
                 leaseTimeout, localFile, delRes, relRes, failedAt, gen, genSeen>>
  /\ UNCHANGED <<mvars, evars, lvars>>

\* an error return that skips the deferred calls
CycleErrorReturns(w, step, next) ==
  /\ failedAt' = [failedAt EXCEPT ![w] = step]
  /\ status' = [status EXCEPT ![w] = 500]
  /\ pc' = [pc EXCEPT ![w] = "done"]

\* a step of the cycle failed: Handler answers 500 and runs its deferred calls
CycleError(w, step, next) ==
  /\ failedAt' = [failedAt EXCEPT ![w] = step]
  /\ status' = [status EXCEPT ![w] = 500]
  /\ pc' = [pc EXCEPT ![w] = next]

\* downloadFromS3 succeeds
Download(w) ==
  /\ pc[w] = "download" /\ Alive(w)
  /\ bucket[req[w].database_name] # NoObject
  /\ localFile' = [localFile EXCEPT ![w] = bucket[req[w].database_name]]
  /\ pc' = [pc EXCEPT ![w] = "exec"]
  /\ UNCHANGED <<clk, adv, lockTable, bucket, req, started, instanceID, existing,
                 leaseTimeout, status, acqRes, delRes, relRes, failedAt, gen, genSeen>>
  /\ UNCHANGED <<mvars, evars, lvars>>

\* downloadFromS3 fails: GetObject or os.Create fails (no local file), or
\* ReadFrom fails after the local file was created. os.Remove is not yet
\* deferred, so only the release runs.
DownloadFail(w, created) ==
  /\ pc[w] = "download" /\ Alive(w)
  /\ created => bucket[req[w].database_name] # NoObject
  /\ localFile' = [localFile EXCEPT ![w] = IF created THEN Partial ELSE @]
  /\ CycleError(w, "download", "release")
  /\ UNCHANGED <<clk, adv, lockTable, bucket, req, started, instanceID, existing,
                 leaseTimeout, acqRes, delRes, relRes, gen, genSeen>>
  /\ UNCHANGED <<mvars, evars, lvars>>

\* a Handler that uploads the local file whatever executeSQL returned
ExecuteSQLThenUpload(w) ==
  /\ pc[w] = "exec" /\ Alive(w)
  /\ IF EngineRejects(req[w].sql_statement)
       THEN /\ failedAt' = [failedAt EXCEPT ![w] = "exec"]
            /\ status' = [status EXCEPT ![w] = 500]
            /\ UNCHANGED localFile
       ELSE /\ localFile' = [localFile EXCEPT ![w] =
                               Executed(@, req[w].sql_statement, w)]
            /\ UNCHANGED <<failedAt, status>>
  /\ pc' = [pc EXCEPT ![w] = "upload"]
  /\ UNCHANGED <<clk, adv, lockTable, bucket, req, started, instanceID, existing,
                 leaseTimeout, acqRes, delRes, relRes, gen, genSeen>>
  /\ UNCHANGED <<mvars, evars, lvars>>

\* executeSQL on the local file
ExecuteSQL(w) ==
  /\ pc[w] = "exec" /\ Alive(w)
  /\ IF EngineRejects(req[w].sql_statement)
       THEN /\ CycleError(w, "exec", "rmlocal")
            /\ UNCHANGED localFile
       ELSE /\ localFile' = [localFile EXCEPT ![w] =
                               Executed(@, req[w].sql_statement, w)]
            /\ pc' = [pc EXCEPT ![w] = "upload"]
            /\ UNCHANGED <<failedAt, status>>
  /\ UNCHANGED <<clk, adv, lockTable, bucket, req, started, instanceID, existing,
                 leaseTimeout, acqRes, delRes, relRes, gen, genSeen>>
  /\ UNCHANGED <<mvars, evars, lvars>>

\* uploadToS3 succeeds; Handler then answers 200
UploadToS3(w) ==
  /\ pc[w] = "upload" /\ Alive(w)
  /\ bucket' = [bucket EXCEPT ![req[w].database_name] = localFile[w]]
  /\ status' = [status EXCEPT ![w] = 200]
  /\ pc' = [pc EXCEPT ![w] = "rmlocal"]
  /\ UNCHANGED <<clk, adv, lockTable, req, started, instanceID, existing, leaseTimeout,
                 localFile, acqRes, delRes, relRes, failedAt, gen, genSeen>>
  /\ UNCHANGED <<mvars, evars, lvars>>

\* a Handler that runs the statement again when the upload failed
UploadFailRetries(w, stored) ==
  /\ pc[w] = "upload" /\ Alive(w)
  /\ bucket' = IF stored THEN [bucket EXCEPT ![req[w].database_name] = localFile[w]]
                         ELSE bucket
  /\ pc' = [pc EXCEPT ![w] = "exec"]
  /\ UNCHANGED <<clk, adv, lockTable, req, started, instanceID, existing, leaseTimeout,
                 localFile, status, acqRes, delRes, relRes, failedAt, gen, genSeen>>
  /\ UNCHANGED <<mvars, evars, lvars>>

\* uploadToS3 fails; the object may or may not have been stored
UploadFail(w, stored) ==
  /\ pc[w] = "upload" /\ Alive(w)
  /\ bucket' = IF stored THEN [bucket EXCEPT ![req[w].database_name] = localFile[w]]
                         ELSE bucket
  /\ CycleError(w, "upload", "rmlocal")
  /\ UNCHANGED <<clk, adv, lockTable, req, started, instanceID, existing, leaseTimeout,
                 localFile, acqRes, delRes, relRes, gen, genSeen>>
  /\ UNCHANGED <<mvars, evars, lvars>>

\* defer os.Remove(localDBPath)
RemoveLocal(w) ==
  /\ pc[w] = "rmlocal" /\ Alive(w)
  /\ localFile' = [localFile EXCEPT ![w] = NoFile]
  /\ pc' = [pc EXCEPT ![w] = "release"]
  /\ UNCHANGED <<clk, adv, lockTable, bucket, req, started, instanceID, existing,
                 leaseTimeout, status, acqRes, delRes, relRes, failedAt, gen, genSeen>>
  /\ UNCHANGED <<mvars, evars, lvars>>

\* a release that deletes the item without the fencing condition
ReleaseUnfenced(w) ==
  /\ pc[w] = "release" /\ Alive(w)
  /\ lockTable' = [lockTable EXCEPT ![req[w].database_name] = NoItem]
  /\ relRes' = [relRes EXCEPT ![w] = "ok"]
  /\ pc' = [pc EXCEPT ![w] = "done"]
  /\ UNCHANGED <<clk, adv, bucket, req, started, instanceID, existing, leaseTimeout,
                 localFile, status, acqRes, delRes, failedAt, gen, genSeen>>
  /\ UNCHANGED <<mvars, evars, lvars>>

\* defer releaseDynamoLock(apiReq.DatabaseName, instanceID); Handler returns
ReleaseDynamoLock(w) ==
  /\ pc[w] = "release" /\ Alive(w)
  /\ LET db == req[w].database_name
     IN IF DeleteCondition(lockTable, db, instanceID[w])
          THEN /\ lockTable' = [lockTable EXCEPT ![db] = NoItem]
               /\ relRes' = [relRes EXCEPT ![w] = "ok"]
          ELSE /\ relRes' = [relRes EXCEPT ![w] = "notholder"]
               /\ UNCHANGED lockTable
  /\ pc' = [pc EXCEPT ![w] = "done"]
  /\ UNCHANGED <<clk, adv, bucket, req, started, instanceID, existing, leaseTimeout,
                 localFile, status, acqRes, delRes, failedAt, gen, genSeen>>
  /\ UNCHANGED <<mvars, evars, lvars>>

\* a Handler that turns a failed release into an error response
ReleaseFailEscalates(w) ==
  /\ pc[w] = "release" /\ Alive(w)
  /\ relRes' = [relRes EXCEPT ![w] = "error"]
  /\ status' = [status EXCEPT ![w] = 500]
  /\ pc' = [pc EXCEPT ![w] = "done"]
  /\ UNCHANGED <<clk, adv, lockTable, bucket, req, started, instanceID, existing,
                 leaseTimeout, localFile, acqRes, delRes, failedAt, gen, genSeen>>
  /\ UNCHANGED <<mvars, evars, lvars>>

\* the deferred DeleteItem fails in the store; Handler returns
ReleaseFail(w) ==
  /\ pc[w] = "release" /\ Alive(w)
  /\ relRes' = [relRes EXCEPT ![w] = "error"]
  /\ pc' = [pc EXCEPT ![w] = "done"]
  /\ UNCHANGED <<clk, adv, lockTable, bucket, req, started, instanceID, existing,
                 leaseTimeout, localFile, status, acqRes, delRes, failedAt, gen, genSeen>>
  /\ UNCHANGED <<mvars, evars, lvars>>

(* --------------------------- environment ------------------------------- *)
\* the invocation stops between its acquire and its release (crash, kill, or
\* the Lambda timeout): it answers nothing and its execution environment,
\* with its /tmp, is discarded
Crash(w) ==
  /\ pc[w] \in {"download", "exec", "upload", "rmlocal", "release"}
  /\ pc' = [pc EXCEPT ![w] = "crashed"]
  /\ localFile' = [localFile EXCEPT ![w] = NoFile]
  /\ status' = [status EXCEPT ![w] = 0]
  /\ failedAt' = [failedAt EXCEPT ![w] = "none"]
  /\ UNCHANGED <<clk, adv, lockTable, bucket, req, started, instanceID, existing,
                 leaseTimeout, acqRes, delRes, relRes, gen, genSeen>>
  /\ UNCHANGED <<mvars, evars, lvars>>

\* time passes
Advance(d) ==
  /\ adv < MaxAdvances
  /\ clk' = clk + d
  /\ adv' = adv + 1
  /\ UNCHANGED <<lockTable, bucket>>
  /\ UNCHANGED wvars
  /\ UNCHANGED <<mvars, evars, lvars>>

\* DynamoDB removes an item whose TTL attribute has passed
TTLDelete(db) ==
  /\ lockTable[db] # NoItem
  /\ TTLExpired(lockTable[db], clk)
  /\ lockTable' = [lockTable EXCEPT ![db] = NoItem]
  /\ UNCHANGED <<clk, adv, bucket>>
  /\ UNCHANGED wvars
  /\ UNCHANGED <<mvars, evars, lvars>>

Next ==
  \/ \E w \in Workers, body \in Requests : Invoke(w, body)
  \/ \E w \in Workers : GetItem(w)
  \/ \E w \in Workers : GetItemFail(w)
  \/ \E w \in Workers : CheckExisting(w)
  \/ \E w \in Workers : DeleteExpired(w)
  \/ \E w \in Workers : DeleteExpiredFail(w)
  \/ \E w \in Workers : MakeItem(w)
  \/ \E w \in Workers : PutItem(w)
  \/ \E w \in Workers : PutItemFail(w)
  \/ \E w \in Workers : Download(w)
  \/ \E w \in Workers, created \in BOOLEAN : DownloadFail(w, created)
  \/ \E w \in Workers : ExecuteSQL(w)
  \/ \E w \in Workers : UploadToS3(w)
  \/ \E w \in Workers, stored \in BOOLEAN : UploadFail(w, stored)
  \/ \E w \in Workers : RemoveLocal(w)
  \/ \E w \in Workers : ReleaseDynamoLock(w)
  \/ \E w \in Workers : ReleaseFail(w)
  \/ \E w \in Workers : Crash(w)
  \/ \E d \in Jumps : Advance(d)
  \/ \E db \in Resources : TTLDelete(db)

Spec == Init /\ [][Next]_vars

allvars == <<vars, mvars, evars, lvars>>

(* --------------------- executeSQL on statement texts ------------------- *)
\* statements are sequences of characters
SELECT == <<"S", "E", "L", "E", "C", "T">>
INSERT == <<"I", "N", "S", "E", "R", "T">>
DELETE == <<"D", "E", "L", "E", "T", "E">>

Keywords ==
  {SELECT, <<"s", "e", "l", "e", "c", "t">>, <<"S", "e", "l", "e", "c", "t">>,
   INSERT, <<"i", "n", "s", "e", "r", "t">>, DELETE}

\* white space and comments
Leads == {<<" ">>, <<"-", "-", "c", "\n">>, <<"/", "*", "*", "/">>}

\* what follows the keyword; a keyword alone is not a statement
Rests == {<<>>, <<" ", "1">>}

RECURSIVE LeadSeqs(_)
LeadSeqs(n) ==
  IF n = 0 THEN {<<>>}
  ELSE LeadSeqs(n - 1) \cup {l \o p : l \in LeadSeqs(n - 1), p \in Leads}

Texts == {l \o k \o r : l \in LeadSeqs(MaxLead), k \in Keywords, r \in Rests}

\* isSelect := len(sqlStatement) > 6 && sqlStatement[:6] == "SELECT"
isSelect(s) == Len(s) > 6 /\ SubSeq(s, 1, 6) = SELECT

\* the engine's tokenizer: white space and comments before the first keyword
\* are skipped
RECURSIVE SkipLead(_)
SkipLead(s) ==
  IF s = <<>> THEN s
  ELSE IF s[1] \in {" ", "\n"} THEN SkipLead(Tail(s))
  ELSE IF Len(s) >= 2 /\ s[1] = "-" /\ s[2] = "-"
    THEN LET nl == {i \in 1..Len(s) : s[i] = "\n"}
         IN IF nl = {} THEN <<>>
            ELSE SkipLead(SubSeq(s, (CHOOSE i \in nl : \A j \in nl : i <= j) + 1, Len(s)))
  ELSE IF Len(s) >= 2 /\ s[1] = "/" /\ s[2] = "*"
    THEN LET cl == {i \in 3..Len(s) - 1 : s[i] = "*" /\ s[i + 1] = "/"}
         IN IF cl = {} THEN <<>>
            ELSE SkipLead(SubSeq(s, (CHOOSE i \in cl : \A j \in cl : i <= j) + 2, Len(s)))
  ELSE s

\* keywords are matched without regard to case
Upper(c) ==
  CASE c = "s" -> "S" [] c = "e" -> "E" [] c = "l" -> "L" [] c = "c" -> "C"
    [] c = "t" -> "T" [] c = "i" -> "I" [] c = "n" -> "N" [] c = "r" -> "R"
    [] c = "d" -> "D" [] OTHER -> c

\* what the engine does with the statement: "read" (it yields rows), "write"
\* (it changes the database) or "invalid" (it is rejected)
EffectOf(s) ==
  LET t == SkipLead(s)
      w == [i \in 1..6 |-> Upper(t[i])]
  IN IF Len(t) <= 6 THEN "invalid"
     ELSE IF w = SELECT THEN "read"
     ELSE IF w \in {INSERT, DELETE} THEN "write"
     ELSE "invalid"

\* executeSQL: db.Query and a row set on the isSelect branch, db.Exec and the
\* number of affected rows on the other
executeSQL(s) ==
  IF EffectOf(s) = "invalid" THEN "error"
  ELSE IF isSelect(s) THEN "rows"
  ELSE "affected"

\* a statement arrives
Receive(s) ==
  /\ sqlStatement = <<>> /\ sqlResult = "none"
  /\ sqlStatement' = s
  /\ UNCHANGED <<sqlResult, vars, mvars, lvars>>

\* executeSQL(localDBPath, apiReq.SQLStatement)
RunExecuteSQL ==
  /\ sqlStatement # <<>> /\ sqlResult = "none"
  /\ sqlResult' = executeSQL(sqlStatement)
  /\ UNCHANGED <<sqlStatement, vars, mvars, lvars>>

ExecNext ==
  \/ \E s \in Texts : Receive(s)
  \/ RunExecuteSQL

ExecSpec == Init /\ [][ExecNext]_allvars

(* ---------------------- the local program (main.go) -------------------- *)
Procs == 1..NumProcs

\* how far the local clock moves at once
TickJumps == {1, lockTimeout}

\* LockInfo{PID: os.Getpid(), Timestamp: time.Now(), Process: "cloudsqlite"}
LockInfo(pid, ts) == [PID |-> pid, Timestamp |-> ts, Process |-> "cloudsqlite"]

\* isProcessRunning(pid): syscall.Kill(pid, 0) finds the process
isProcessRunning(pid) == ppc[pid] \notin {"start", "exited", "killed"}

\* time.Since(lockInfo.Timestamp) > lockTimeout
LockIsStale(info, t) == t - info.Timestamp > lockTimeout

\* log.Fatalf: the message is logged and os.Exit(1) ends the process at once;
\* deferred calls do not run
Fatalf(p, why) ==
  /\ ppc' = [ppc EXCEPT ![p] = "exited"]
  /\ exit' = [exit EXCEPT ![p] = why]

\* main up to initializeDatabase: the directory is made and the database is
\* created when os.Stat does not find it
initializeDatabase(p, ok) ==
  /\ ppc[p] = "start"
  /\ \A q \in Procs : q < p => ppc[q] # "start"   \* processes are numbered in order of start
  /\ IF ok
       THEN /\ storeDB' = IF storeDB = NoFile THEN Database({}) ELSE storeDB
            /\ ppc' = [ppc EXCEPT ![p] = "stat"]
            /\ UNCHANGED exit
       ELSE /\ Fatalf(p, "init")
            /\ UNCHANGED storeDB
  /\ UNCHANGED <<now, ticks, lockJSON, tempDB, lockInfo, stamp, vars, evars, lvars>>

\* acquireLock: os.Stat(lockPath)
StatLockFile(p) ==
  /\ ppc[p] = "stat"
  /\ ppc' = [ppc EXCEPT ![p] = IF lockJSON # NoFile THEN "read" ELSE "mk"]
  /\ UNCHANGED <<now, ticks, lockJSON, storeDB, tempDB, lockInfo, stamp, exit, vars, evars, lvars>>

\* checkLockValidity: os.ReadFile and json.Unmarshal; a file that is gone is
\* an error, and main ends with "Failed to acquire lock"
ReadLockFile(p) ==
  /\ ppc[p] = "read"
  /\ IF lockJSON = NoFile
       THEN /\ Fatalf(p, "acquire")
            /\ UNCHANGED lockInfo
       ELSE /\ lockInfo' = [lockInfo EXCEPT ![p] = lockJSON]
            /\ ppc' = [ppc EXCEPT ![p] = "judge"]
            /\ UNCHANGED exit
  /\ UNCHANGED <<now, ticks, lockJSON, storeDB, tempDB, stamp, vars, evars, lvars>>

\* checkLockValidity: the lock is stale by age, or its process is gone, or it
\* is held
checkLockValidity(p) ==
  /\ ppc[p] = "judge"
  /\ IF LockIsStale(lockInfo[p], now) \/ ~isProcessRunning(lockInfo[p].PID)
       THEN /\ ppc' = [ppc EXCEPT ![p] = "remove"]
            /\ UNCHANGED exit
       ELSE Fatalf(p, "acquire")
  /\ UNCHANGED <<now, ticks, lockJSON, storeDB, tempDB, lockInfo, stamp, vars, evars, lvars>>

\* checkLockValidity: return os.Remove(lockPath); its error makes acquireLock fail
RemoveStaleLock(p) ==
  /\ ppc[p] = "remove"
  /\ IF lockJSON = NoFile
       THEN /\ Fatalf(p, "acquire")
            /\ UNCHANGED lockJSON
       ELSE /\ lockJSON' = NoFile
            /\ ppc' = [ppc EXCEPT ![p] = "mk"]
            /\ UNCHANGED exit
  /\ UNCHANGED <<now, ticks, storeDB, tempDB, lockInfo, stamp, vars, evars, lvars>>

\* acquireLock: lockInfo := LockInfo{..., Timestamp: time.Now()}
MakeLockInfo(p) ==
  /\ ppc[p] = "mk"
  /\ stamp' = [stamp EXCEPT ![p] = now]
  /\ ppc' = [ppc EXCEPT ![p] = "write"]
  /\ UNCHANGED <<now, ticks, lockJSON, storeDB, tempDB, lockInfo, exit, vars, evars, lvars>>

\* acquireLock: os.WriteFile(lockPath, lockData, 0644); acquireLock returns
\* nil and main defers releaseLock
WriteLockFile(p, ok) ==
  /\ ppc[p] = "write"
  /\ IF ok
       THEN /\ lockJSON' = LockInfo(p, stamp[p])
            /\ ppc' = [ppc EXCEPT ![p] = "download"]
            /\ UNCHANGED exit
       ELSE /\ Fatalf(p, "acquire")
            /\ UNCHANGED lockJSON
  /\ UNCHANGED <<now, ticks, storeDB, tempDB, lockInfo, stamp, vars, evars, lvars>>

\* a file that was removed while a process still had it open
Unlinked(content) == [unlinked |-> content]

\* the path names a file
Exists(file) == file # NoFile /\ "unlinked" \notin DOMAIN file

\* between the return of acquireLock and the deferred releaseLock
Transaction == {"download", "dlcopy", "modify", "upload", "upcopy", "rmtemp", "release"}

\* performTransaction returns an error: its deferred os.Remove runs, then
\* main ends with log.Fatalf
TransactionFailed(p) ==
  /\ exit' = [exit EXCEPT ![p] = "transaction"]
  /\ ppc' = [ppc EXCEPT ![p] = "rmtemp"]

\* copyFile(store, temp): os.Open(src) and os.Create(dst), which truncates; on
\* an error the removal of the temp file is not yet deferred
DownloadCreate(p, ok) ==
  /\ ppc[p] = "download"
  /\ IF ok /\ Exists(storeDB)
       THEN /\ tempDB' = Partial
            /\ ppc' = [ppc EXCEPT ![p] = "dlcopy"]
            /\ UNCHANGED exit
       ELSE /\ Fatalf(p, "transaction")
            /\ UNCHANGED tempDB
  /\ UNCHANGED <<now, ticks, lockJSON, storeDB, lockInfo, stamp, vars, evars, lvars>>

\* copyFile(store, temp): io.Copy; what is written to a file that was removed
\* meanwhile is not seen under the path
DownloadCopy(p, ok) ==
  /\ ppc[p] = "dlcopy"
  /\ IF ok
       THEN /\ tempDB' = IF Exists(tempDB) THEN storeDB ELSE tempDB
            /\ ppc' = [ppc EXCEPT ![p] = "modify"]
            /\ UNCHANGED exit
       ELSE /\ Fatalf(p, "transaction")
            /\ UNCHANGED tempDB
  /\ UNCHANGED <<now, ticks, lockJSON, storeDB, lockInfo, stamp, vars, evars, lvars>>

\* modifyDatabase(localDBPath): the INSERT and the count; a file that is
\* missing or not a complete database makes the INSERT fail
modifyDatabase(p, ok) ==
  /\ ppc[p] = "modify"
  /\ IF ok /\ Exists(tempDB) /\ tempDB # Partial
       THEN /\ tempDB' = Database(tempDB.rows \cup {p})
            /\ ppc' = [ppc EXCEPT ![p] = "upload"]
            /\ UNCHANGED exit
       ELSE /\ tempDB' = IF Exists(tempDB) THEN tempDB ELSE Partial
            /\ TransactionFailed(p)
  /\ UNCHANGED <<now, ticks, lockJSON, storeDB, lockInfo, stamp, vars, evars, lvars>>

\* copyFile(temp, store): os.Open(src) and os.Create(dst), which truncates
\* the database file of the store
UploadCreate(p, ok) ==
  /\ ppc[p] = "upload"
  /\ IF ok /\ Exists(tempDB)
       THEN /\ storeDB' = Partial
            /\ ppc' = [ppc EXCEPT ![p] = "upcopy"]
            /\ UNCHANGED exit
       ELSE /\ TransactionFailed(p)
            /\ UNCHANGED storeDB
  /\ UNCHANGED <<now, ticks, lockJSON, tempDB, lockInfo, stamp, vars, evars, lvars>>

\* copyFile(temp, store): io.Copy; a source that was removed meanwhile is
\* still read through the open file
UploadCopy(p, ok) ==
  /\ ppc[p] = "upcopy"
  /\ IF ok
       THEN /\ storeDB' = IF Exists(tempDB) THEN tempDB
                          ELSE IF tempDB = NoFile THEN Partial ELSE tempDB.unlinked
            /\ ppc' = [ppc EXCEPT ![p] = "rmtemp"]
            /\ UNCHANGED exit
       ELSE /\ TransactionFailed(p)
            /\ UNCHANGED storeDB
  /\ UNCHANGED <<now, ticks, lockJSON, tempDB, lockInfo, stamp, vars, evars, lvars>>

\* defer os.Remove(localDBPath) in performTransaction; then main either ends
\* with log.Fatalf (the transaction failed) or goes on to its deferred call
RemoveTemp(p) ==
  /\ ppc[p] = "rmtemp"
  /\ tempDB' = IF ~Exists(tempDB) THEN tempDB
               ELSE IF \E q \in Procs \ {p} : ppc[q] \in {"dlcopy", "upcopy"}
                 THEN Unlinked(tempDB)
               ELSE NoFile
  /\ IF exit[p] = "transaction"
       THEN ppc' = [ppc EXCEPT ![p] = "exited"]
       ELSE ppc' = [ppc EXCEPT ![p] = "release"]
  /\ UNCHANGED <<now, ticks, lockJSON, storeDB, lockInfo, stamp, exit, vars, evars, lvars>>

\* defer releaseLock(): os.Remove(lockPath), whose error is dropped; the
\* process ends
releaseLock(p, ok) ==
  /\ ppc[p] = "release"
  /\ lockJSON' = IF ok THEN NoFile ELSE lockJSON
  /\ ppc' = [ppc EXCEPT ![p] = "exited"]
  /\ exit' = [exit EXCEPT ![p] = IF ok THEN "ok" ELSE "release"]
  /\ UNCHANGED <<now, ticks, storeDB, tempDB, lockInfo, stamp, vars, evars, lvars>>

\* the process is killed during its transaction
Kill(p) ==
  /\ ppc[p] \in Transaction
  /\ ppc' = [ppc EXCEPT ![p] = "killed"]
  /\ exit' = [exit EXCEPT ![p] = "none"]
  /\ UNCHANGED <<now, ticks, lockJSON, storeDB, tempDB, lockInfo, stamp, vars, evars, lvars>>

\* time passes on the machine
Tick(d) ==
  /\ ticks < MaxTicks
  /\ now' = now + d
  /\ ticks' = ticks + 1
  /\ UNCHANGED <<lockJSON, storeDB, tempDB, ppc, lockInfo, stamp, exit, vars, evars, lvars>>

MainNext ==
  \/ \E p \in Procs, ok \in BOOLEAN : initializeDatabase(p, ok)
  \/ \E p \in Procs : StatLockFile(p)
  \/ \E p \in Procs : ReadLockFile(p)
  \/ \E p \in Procs : checkLockValidity(p)
  \/ \E p \in Procs : RemoveStaleLock(p)
  \/ \E p \in Procs : MakeLockInfo(p)
  \/ \E p \in Procs, ok \in BOOLEAN : WriteLockFile(p, ok)
  \/ \E p \in Procs, ok \in BOOLEAN : DownloadCreate(p, ok)
  \/ \E p \in Procs, ok \in BOOLEAN : DownloadCopy(p, ok)
  \/ \E p \in Procs, ok \in BOOLEAN : modifyDatabase(p, ok)
  \/ \E p \in Procs, ok \in BOOLEAN : UploadCreate(p, ok)
  \/ \E p \in Procs, ok \in BOOLEAN : UploadCopy(p, ok)
  \/ \E p \in Procs : RemoveTemp(p)
  \/ \E p \in Procs, ok \in BOOLEAN : releaseLock(p, ok)
  \/ \E p \in Procs : Kill(p)
  \/ \E d \in TickJumps : Tick(d)

MainSpec == Init /\ [][MainNext]_allvars

\* acquireLock returned nil in p and p has not ended
Holding(p) == ppc[p] \in Transaction

\* the lock file names p
LockFileOf(p) == lockJSON # NoFile /\ lockJSON.PID = p

\* C22: two processes never hold the local lock at the same time: no two
\* processes are both past a successful acquireLock with locks that are both
\* within lockTimeout.
C22_MutualExclusion ==
  \A p, q \in Procs :
    p # q => ~(/\ Holding(p) /\ ~LockIsStale(LockInfo(p, stamp[p]), now)
               /\ Holding(q) /\ ~LockIsStale(LockInfo(q, stamp[q]), now))

\* C23: a process that acquired the lock and ended, after a completed or a
\* failed transaction, has left no lock file of its own behind.
C23_ReleasedOnEveryExit ==
  \A p \in Procs :
    (ppc[p] = "exited" /\ exit[p] \in {"ok", "transaction"}) => ~LockFileOf(p)

\* C24: a process that finds a lock file whose age is within lockTimeout fails
\* to acquire, whether or not the process named in the file is running.
C24_UnexpiredNeverTaken ==
  [][\A p \in Procs :
       (ppc[p] = "judge" /\ ppc'[p] # "judge" /\ ~LockIsStale(lockInfo[p], now))
         => (ppc'[p] = "exited" /\ exit'[p] = "acquire")]_allvars

\* C25: while a process holds the lock (the file names it, it is in its
\* transaction and the lock is within lockTimeout), no step of another
\* process removes or overwrites the lock file.
C25_Fencing ==
  [][\A q \in Procs :
       (LockFileOf(q) /\ Holding(q) /\ ~LockIsStale(lockJSON, now)
          /\ lockJSON' # lockJSON)
         => ppc'[q] # ppc[q]]_allvars

\* C26: every step of a process that reads or writes the database file of
\* the store is taken while the lock file names that process.
C26_StoreOnlyUnderLock ==
  [][\A p \in Procs :
       (\/ ppc[p] = "start" /\ ppc'[p] = "stat"
        \/ /\ ppc[p] \in {"download", "dlcopy", "upload", "upcopy"}
           /\ ppc'[p] \notin {ppc[p], "killed"})
         => LockFileOf(p)]_allvars

(* ------------------- the load generator (load_test.go) ----------------- *)
Goroutines == 1..MaxRequests

\* client.Do returned an error: there is no response
NoResponse == 0

\* the status codes the API answers with (Handler: 200, 400, 409, 500)
StatusCodes == {200, 409}

\* LoadTestResult{StatusCode: ..., Success: ...}
LoadTestResult(code, ok) == [StatusCode |-> code, Success |-> ok]

\* executeRequest: no response, a body that does not parse, or
\* success := resp.StatusCode >= 200 && resp.StatusCode < 300
executeRequest(resp, parsed) ==
  IF resp = NoResponse THEN LoadTestResult(0, FALSE)
  ELSE IF ~parsed THEN LoadTestResult(resp, FALSE)
  ELSE LoadTestResult(resp, resp >= 200 /\ resp < 300)

\* a channel that takes an element whatever it holds
CanSendAlways(n, capacity) == TRUE

\* semaphore <- struct{}{} goes through when the buffer is not full
CanSend(n, capacity) == n < capacity

\* a mutex that never makes anyone wait
MutexIgnored(holder) == TRUE

\* mutex.Lock() goes through when the mutex is unlocked
MutexFree(holder) == holder = 0

\* the number of results with the given Success
CountSuccess(rs, ok) == Cardinality({k \in 1..Len(rs) : rs[k].Success = ok})

\* calculateSummary: the counts of the summary
calculateSummary(rs) ==
  IF Len(rs) = 0 THEN NoSummary
  ELSE [TotalRequests |-> Len(rs),
        SuccessfulRequests |-> CountSuccess(rs, TRUE),
        FailedRequests |-> CountSuccess(rs, FALSE)]

\* runLoadTest(config): results, mutex, wg, semaphore and client are made
runLoadTest(total, conc) ==
  /\ lpc = "start"
  /\ config' = [TotalRequests |-> total, Concurrency |-> conc]
  /\ lpc' = "loop"
  /\ UNCHANGED <<loopI, gpc, semaphore, wg, mutex, results, result, snapshot, summary,
                 vars, mvars, evars>>

\* one turn of the loop: wg.Add(1); go func(requestID int) {...}(i)
Spawn ==
  /\ lpc = "loop" /\ loopI < config.TotalRequests
  /\ wg' = wg + 1
  /\ gpc' = [gpc EXCEPT ![loopI + 1] = "sem"]
  /\ loopI' = loopI + 1
  /\ UNCHANGED <<config, lpc, semaphore, mutex, results, result, snapshot, summary,
                 vars, mvars, evars>>

\* the loop ends; runLoadTest calls wg.Wait()
LoopEnd ==
  /\ lpc = "loop" /\ loopI >= config.TotalRequests
  /\ lpc' = "wait"
  /\ UNCHANGED <<config, loopI, gpc, semaphore, wg, mutex, results, result, snapshot,
                 summary, vars, mvars, evars>>

\* semaphore <- struct{}{}
SemAcquire(g) ==
  /\ gpc[g] = "sem"
  /\ CanSend(semaphore, config.Concurrency)
  /\ semaphore' = semaphore + 1
  /\ gpc' = [gpc EXCEPT ![g] = "exec"]
  /\ UNCHANGED <<config, lpc, loopI, wg, mutex, results, result, snapshot, summary,
                 vars, mvars, evars>>

\* result := executeRequest(client, config.APIURL, payload)
ExecuteRequest(g, resp, parsed) ==
  /\ gpc[g] = "exec"
  /\ result' = [result EXCEPT ![g] = executeRequest(resp, parsed)]
  /\ gpc' = [gpc EXCEPT ![g] = "lock"]
  /\ UNCHANGED <<config, lpc, loopI, semaphore, wg, mutex, results, snapshot, summary,
                 vars, mvars, evars>>

\* mutex.Lock()
Lock(g) ==
  /\ gpc[g] = "lock"
  /\ MutexFree(mutex)
  /\ mutex' = g
  /\ gpc' = [gpc EXCEPT ![g] = "read"]
  /\ UNCHANGED <<config, lpc, loopI, semaphore, wg, results, result, snapshot, summary,
                 vars, mvars, evars>>

\* append(results, result): the slice is read
AppendRead(g) ==
  /\ gpc[g] = "read"
  /\ snapshot' = [snapshot EXCEPT ![g] = results]
  /\ gpc' = [gpc EXCEPT ![g] = "write"]
  /\ UNCHANGED <<config, lpc, loopI, semaphore, wg, mutex, results, result, summary,
                 vars, mvars, evars>>

\* results = append(results, result): the longer slice is assigned
AppendWrite(g) ==
  /\ gpc[g] = "write"
  /\ results' = Append(snapshot[g], result[g])
  /\ snapshot' = [snapshot EXCEPT ![g] = <<>>]
  /\ gpc' = [gpc EXCEPT ![g] = "unlock"]
  /\ UNCHANGED <<config, lpc, loopI, semaphore, wg, mutex, result, summary,
                 vars, mvars, evars>>

\* mutex.Unlock()
Unlock(g) ==
  /\ gpc[g] = "unlock"
  /\ mutex' = 0
  /\ gpc' = [gpc EXCEPT ![g] = "semrel"]
  /\ UNCHANGED <<config, lpc, loopI, semaphore, wg, results, result, snapshot, summary,
                 vars, mvars, evars>>

\* defer func() { <-semaphore }()
SemRelease(g) ==
  /\ gpc[g] = "semrel"
  /\ semaphore > 0
  /\ semaphore' = semaphore - 1
  /\ gpc' = [gpc EXCEPT ![g] = "wgdone"]
  /\ UNCHANGED <<config, lpc, loopI, wg, mutex, results, result, snapshot, summary,
                 vars, mvars, evars>>

\* defer wg.Done(); the goroutine ends
WgDone(g) ==
  /\ gpc[g] = "wgdone"
  /\ wg' = wg - 1
  /\ gpc' = [gpc EXCEPT ![g] = "finished"]
  /\ UNCHANGED <<config, lpc, loopI, semaphore, mutex, results, result, snapshot,
                 summary, vars, mvars, evars>>

\* wg.Wait() returns when the counter is zero
Wait ==
  /\ lpc = "wait" /\ wg = 0
  /\ lpc' = "summary"
  /\ UNCHANGED <<config, loopI, gpc, semaphore, wg, mutex, results, result, snapshot,
                 summary, vars, mvars, evars>>

\* return calculateSummary(results, totalDuration)
CalculateSummary ==
  /\ lpc = "summary"
  /\ summary' = calculateSummary(results)
  /\ lpc' = "returned"
  /\ UNCHANGED <<config, loopI, gpc, semaphore, wg, mutex, results, result, snapshot,
                 vars, mvars, evars>>

LoadNext ==
  \/ \E total \in 0..MaxRequests, conc \in 1..MaxConcurrency : runLoadTest(total, conc)
  \/ Spawn
  \/ LoopEnd
  \/ \E g \in Goroutines : SemAcquire(g)
  \/ \E g \in Goroutines, resp \in {NoResponse} \cup StatusCodes, parsed \in BOOLEAN :
       ExecuteRequest(g, resp, parsed)
  \/ \E g \in Goroutines : Lock(g)
  \/ \E g \in Goroutines : AppendRead(g)
  \/ \E g \in Goroutines : AppendWrite(g)
  \/ \E g \in Goroutines : Unlock(g)
  \/ \E g \in Goroutines : SemRelease(g)
  \/ \E g \in Goroutines : WgDone(g)
  \/ Wait
  \/ CalculateSummary

LoadSpec == Init /\ [][LoadNext]_allvars

\* the Go scheduler runs every goroutine that can take a step
LoadFairSpec ==
  /\ LoadSpec
  /\ WF_allvars(Spawn) /\ WF_allvars(LoopEnd) /\ WF_allvars(Wait)
  /\ WF_allvars(CalculateSummary)
  /\ \A g \in Goroutines :
       /\ WF_allvars(SemAcquire(g))
       /\ WF_allvars(\E resp \in {NoResponse} \cup StatusCodes, parsed \in BOOLEAN :
                       ExecuteRequest(g, resp, parsed))
       /\ WF_allvars(Lock(g)) /\ WF_allvars(AppendRead(g)) /\ WF_allvars(AppendWrite(g))
       /\ WF_allvars(Unlock(g)) /\ WF_allvars(SemRelease(g)) /\ WF_allvars(WgDone(g))

(* ------------------------- shared vocabulary --------------------------- *)
LeaseSeconds == lockTimeoutMinutes * SecondsPerMinute

\* the invocations that called acquireDynamoLock for database r
Callers(r) ==
  {w \in Workers : pc[w] # "idle" /\ status[w] # 400 /\ req[w].database_name = r}

\* between a successful acquireDynamoLock and the deferred release
CriticalSection == {"download", "exec", "upload", "rmlocal", "release"}

\* the item invocation w wrote (if its PutItem succeeded)
OwnItem(w) == LockItem(req[w].database_name, instanceID[w], leaseTimeout[w])

DistinctIds(S) == \A v, w \in S : v # w => instanceID[v] # instanceID[w]

\* the places of an invocation in the order in which Handler and
\* acquireDynamoLock go through them
StepOrder == <<"idle", "get", "check", "del", "mk", "put", "download", "exec",
               "upload", "rmlocal", "release", "done", "crashed">>

Rank(p) == CHOOSE i \in 1..Len(StepOrder) : StepOrder[i] = p

(* ----------------------------- responses ------------------------------- *)
\* an error text that names no holder and no expiry
NoHolder == -1

\* the error of the SDK that a message ends with ("%v")
SDKError(w) ==
  CASE acqRes[w] = "race" -> "ConditionalCheckFailedException"
    [] acqRes[w] \in {"check", "puterr"} -> "RequestFailure"
    [] OTHER -> ""

\* the error acquireDynamoLock returns: its text, and the holder and the
\* expiry the text names
AcquireMessage(w) ==
  CASE acqRes[w] = "check" ->
         [text |-> "failed to check existing lock", instance |-> NoHolder,
          until |-> NoHolder]
    [] acqRes[w] = "locked" ->
         [text |-> "database is locked by instance", instance |-> existing[w].instance_id,
          until |-> existing[w].lease_timeout]
    [] OTHER ->
         [text |-> "failed to acquire lock (race condition)", instance |-> NoHolder,
          until |-> NoHolder]

\* a Handler that reports every failure of the cycle with one message
CycleMessageGeneric(step) == "Internal error"

\* the message Handler gives for a failed step of the cycle
CycleMessage(step) ==
  CASE step = "download" -> "Failed to download database"
    [] step = "exec" -> "SQL execution failed"
    [] step = "upload" -> "Failed to upload database"
    [] OTHER -> ""

\* the response Handler returned: StatusCode and the Error of the body
\* (createErrorResponse); a 200 carries the result and no Error
Response(w) ==
  CASE status[w] = 400 ->
         [StatusCode |-> 400,
          Error |-> IF req[w].database_name = "" THEN "Invalid JSON in request body"
                                                 ELSE "SQL statement is required",
          cause |-> "", instance |-> NoHolder, until |-> NoHolder, sdk |-> ""]
    [] status[w] = 409 ->
         [StatusCode |-> 409, Error |-> "Failed to acquire lock",
          cause |-> AcquireMessage(w).text, instance |-> AcquireMessage(w).instance,
          until |-> AcquireMessage(w).until, sdk |-> SDKError(w)]
    [] status[w] = 500 ->
         [StatusCode |-> 500, Error |-> CycleMessage(failedAt[w]), cause |-> "",
          instance |-> NoHolder, until |-> NoHolder, sdk |-> ""]
    [] OTHER ->
         [StatusCode |-> status[w], Error |-> "", cause |-> "", instance |-> NoHolder,
          until |-> NoHolder, sdk |-> ""]

\* what the response says happened, as far as this program words it: the
\* status code and the messages of Handler and acquireDynamoLock, without the
\* SDK's error text and without the values formatted into the message
Outcome(w) == <<Response(w).StatusCode, Response(w).Error, Response(w).cause>>

TypeOK ==
  /\ clk \in Nat /\ adv \in 0..MaxAdvances
  /\ \A w \in Workers : status[w] \in {0, 200, 400, 409, 500}

(* ------------------------------ claims --------------------------------- *)

\* the lease invocation w wrote has not run out
LeaseRunning(w) == leaseTimeout[w] > Unix(clk)

\* the callers for r all found no item and got an answer from the lock
\* store; none has released yet and no lease written in the race has run out
FreeRace(r) ==
  /\ Callers(r) # {}
  /\ \A w \in Callers(r) :
       /\ acqRes[w] \in {"ok", "race"}
       /\ existing[w] = NoItem
       /\ relRes[w] = "none"
       /\ acqRes[w] = "ok" => LeaseRunning(w)

\* C1: when the concurrent acquireDynamoLock calls for a database all found
\* no lease item (GetItem, then the conditional PutItem) and all have
\* returned, exactly one of them returned success and the others an error.
C1_ExactlyOneAcquires ==
  \A r \in Resources :
    FreeRace(r) => Cardinality({w \in Callers(r) : acqRes[w] = "ok"}) = 1

\* every invocation raced for the same free database with its own instance
\* id; one lost at the conditional put
C1_Witness ==
  \E r \in Resources :
    /\ FreeRace(r)
    /\ Callers(r) = Workers
    /\ DistinctIds(Workers)
    /\ \E w \in Workers : acqRes[w] = "race"

\* the callers that found the expired item X and went on to reclaim it
Reclaimers(r, X) ==
  {w \in Callers(r) : existing[w] = X /\ acqRes[w] \notin {"none", "locked"}}

\* the reclaimers of X raced: none of them has released, no lease written in
\* the race has run out, and the instance ids on r are distinct
ReclaimRace(r, X) ==
  /\ X # NoItem
  /\ \A w \in Reclaimers(r, X) :
       /\ relRes[w] = "none"
       /\ acqRes[w] = "ok" => LeaseRunning(w)
  /\ DistinctIds(Callers(r))
  /\ \A w \in Callers(r) : instanceID[w] # X.instance_id

\* C2: of the workers that found the same expired item and each ran
\* GetItem, the conditional DeleteItem of the observed holder and the
\* conditional PutItem, in any interleaving, at most one returned success.
C2_OneReclaimerWins ==
  \A r \in Resources : \A v \in Callers(r) :
    ReclaimRace(r, existing[v]) =>
      Cardinality({w \in Reclaimers(r, existing[v]) : acqRes[w] = "ok"}) <= 1

\* two workers found the item left behind; one replaced it, the other's
\* conditional delete and conditional put both failed
C2_Witness ==
  /\ Callers(dbFileName) = Workers
  /\ ReclaimRace(dbFileName, LeftBehind(dbFileName))
  /\ \E v, w \in Workers :
       /\ existing[v] = LeftBehind(dbFileName) /\ existing[w] = LeftBehind(dbFileName)
       /\ acqRes[v] = "ok" /\ delRes[v] = "ok"
       /\ acqRes[w] = "race" /\ delRes[w] = "failed"

\* the invocation is between its successful acquire and its release, and running
InCycle(w) == pc[w] \in CriticalSection /\ Alive(w)

\* C3: for every database, at every instant at most one running invocation is
\* between its successful acquireDynamoLock and its releaseDynamoLock.
C3_Serialization ==
  \A v, w \in Workers :
    (v # w /\ InCycle(v) /\ InCycle(w)) => req[v].database_name # req[w].database_name

\* invocation w ends its PutItem call in this step with an answer of the store
PutAnswered(w) == pc[w] = "put" /\ pc'[w] # "put" /\ acqRes'[w] # "puterr"

\* at this instant the table has no item for r, or one whose lease is in the past
FreeOrExpired(r) == lockTable[r] = NoItem \/ lockTable[r].lease_timeout < Unix(clk)

\* C4: an acquireDynamoLock call succeeds if and only if, at the moment of
\* its write, no item exists for the database or the existing item's lease
\* expiry is in the past (one conditional write decided by the store).
C4_AtomicAcquire ==
  [][\A w \in Workers :
       PutAnswered(w) => (acqRes'[w] = "ok" <=> FreeOrExpired(req[w].database_name))]_vars

C6_FencedRelease ==
  [][\A w \in Workers :
       LET r == req[w].database_name IN
       /\ (pc[w] = "release" /\ pc'[w] = "done")
            => IF lockTable[r] # NoItem /\ lockTable[r].instance_id = instanceID[w]
                 THEN relRes'[w] = "ok" => lockTable' = [lockTable EXCEPT ![r] = NoItem]
                 ELSE relRes'[w] # "ok" /\ lockTable' = lockTable
       /\ (pc[w] = "release" /\ pc'[w] = "done" /\ relRes'[w] # "ok")
            => lockTable' = lockTable
       /\ (pc[w] = "del" /\ pc'[w] = "mk")
            => IF lockTable[r] # NoItem /\ lockTable[r].instance_id = existing[w].instance_id
                 THEN delRes'[w] = "ok" => lockTable' = [lockTable EXCEPT ![r] = NoItem]
                 ELSE delRes'[w] # "ok" /\ lockTable' = lockTable]_vars

\* an invocation whose lease ran out and was reclaimed released afterwards:
\* it got the error and the reclaimer's item is still in the table
C6_Witness ==
  \E v, w \in Workers :
    /\ v # w
    /\ pc[w] = "done" /\ acqRes[w] = "ok" /\ relRes[w] = "notholder"
    /\ acqRes[v] = "ok" /\ existing[v] = OwnItem(w)
    /\ lockTable[req[w].database_name] = OwnItem(v)

\* C7: once acquireDynamoLock has succeeded, Handler attempts the release
\* with its own instance id before it returns, on the download-failure, the
\* execution-failure, the upload-failure and the success path.
C7_ReleaseOnEveryExit ==
  /\ [](\A w \in Workers : (pc[w] = "done" /\ acqRes[w] = "ok") => relRes[w] # "none")
  /\ [][\A w \in Workers :
          (pc[w] = "release" /\ pc'[w] = "done" /\ relRes'[w] # "error"
             /\ lockTable[req[w].database_name] = OwnItem(w))
            => lockTable'[req[w].database_name] = NoItem]_vars

\* an invocation whose download failed has returned and its item is gone
C7_Witness ==
  \E w \in Workers :
    /\ pc[w] = "done" /\ failedAt[w] = "download" /\ status[w] = 500
    /\ relRes[w] = "ok" /\ lockTable[req[w].database_name] = NoItem

\* C8: when a holder stopped without releasing, an acquire that starts once
\* the clock has passed the item's lease expiry is not refused because of
\* that item: it fails only on a store error or when another acquirer's put
\* got in first.
C8_ExpiryFreesTheLock ==
  \A w \in Workers :
    (acqRes[w] # "none" /\ existing[w] # NoItem
       /\ existing[w].lease_timeout < Unix(started[w]))
      => /\ acqRes[w] # "locked"
         /\ acqRes[w] = "race" =>
              (delRes[w] = "error" \/ gen[req[w].database_name] > genSeen[w])

\* a holder crashed in its cycle; after its lease expiry another invocation
\* found its item and acquired the lock
C8_Witness ==
  \E v, w \in Workers :
    /\ v # w
    /\ pc[v] = "crashed" /\ acqRes[v] = "ok" /\ relRes[v] = "none"
    /\ existing[w] = OwnItem(v)
    /\ existing[w].lease_timeout < Unix(started[w])
    /\ acqRes[w] = "ok" /\ lockTable[req[w].database_name] = OwnItem(w)

\* C9: the lease written by acquireDynamoLock outlasts the invocation: while
\* the invocation that wrote it is still running in its cycle (within the
\* Lambda timeout), the lease has not become reclaimable.
C9_LeaseOutlivesCycle ==
  \A w \in Workers :
    (InCycle(w) /\ acqRes[w] = "ok") => LeaseStillValid(OwnItem(w), clk)

\* C10: when executeSQL returns an error, Handler does not upload: the only
\* steps that change an object of the bucket are uploads, an invocation is
\* at its upload only after a successful executeSQL, and the invocation whose
\* statement failed has attempted its release when it returns.
C10_FailedExecLeavesSnapshot ==
  /\ [](\A w \in Workers :
         /\ pc[w] = "upload" => (failedAt[w] = "none" /\ req[w].sql_statement # "INVALID")
         /\ (pc[w] = "done" /\ failedAt[w] = "exec") => relRes[w] # "none")
  /\ [][\A r \in Resources :
          bucket'[r] # bucket[r] =>
            \E w \in Callers(r) : pc[w] = "upload" /\ pc'[w] = "rmlocal"]_vars

\* an invocation with a rejected statement has returned 500, released its
\* lease, and the object is the one the bucket started with
C10_Witness ==
  \E w \in Workers :
    /\ pc[w] = "done" /\ failedAt[w] = "exec" /\ status[w] = 500
    /\ relRes[w] = "ok"
    /\ bucket[req[w].database_name] = Database({})

\* C11: first use: when the bucket has no object for the database, Handler
\* does not answer with a download failure: it goes on to executeSQL with an
\* empty database (and then uploads it).
C11_FirstUseBootstrap ==
  [][\A w \in Workers :
       (pc[w] = "download" /\ pc'[w] \notin {"download", "crashed"}
          /\ bucket[req[w].database_name] = NoObject)
         => (pc'[w] = "exec" /\ localFile'[w] = Database({}) /\ status'[w] # 500)]_vars

\* C12: an invocation calls acquireDynamoLock once; when the call reports a
\* conflict (or any error) the invocation ends in that very step with the 409,
\* it never goes back to the acquire, and it has not downloaded, executed or
\* uploaded anything.
C12_NoBlockingNoRetry ==
  /\ [](\A w \in Workers :
         acqRes[w] \notin {"none", "ok"}
           => /\ pc[w] = "done" /\ status[w] = 409
              /\ localFile[w] = NoFile /\ failedAt[w] = "none" /\ relRes[w] = "none")
  /\ [][\A w \in Workers :
          /\ acqRes[w] # "none" => acqRes'[w] = acqRes[w]
          /\ pc'[w] = "get" => pc[w] \in {"idle", "get"}
          /\ (pc[w] \in {"get", "check", "del", "mk", "put"} /\ pc'[w] # pc[w])
               => (clk' = clk /\ bucket' = bucket)
          /\ (pc[w] = "check" /\ pc'[w] # "check" /\ LeaseStillValid(existing[w], clk))
               => (pc'[w] = "done" /\ status'[w] = 409)]_vars

\* an invocation found the other's valid lease and has ended with the
\* conflict while the holder is still in its cycle
C12_Witness ==
  \E v, w \in Workers :
    /\ v # w
    /\ pc[v] \in CriticalSection /\ lockTable[req[v].database_name] = OwnItem(v)
    /\ existing[w] = OwnItem(v) /\ acqRes[w] = "locked"
    /\ pc[w] = "done" /\ Response(w).StatusCode = 409

\* C13: status mapping: a body that is not JSON or has no statement is
\* answered 400, an acquire that did not get the lock 409, a failed download,
\* execution or upload 500, a complete cycle 200; an invocation that has
\* returned has exactly one of these, and it does not change.
C13_StatusMapping ==
  /\ [](\A w \in Workers :
         /\ pc[w] = "done" => status[w] \in {200, 400, 409, 500}
         /\ (pc[w] = "done" /\ req[w].sql_statement = "") <=> status[w] = 400
         /\ (pc[w] = "done" /\ acqRes[w] \notin {"none", "ok"}) <=> status[w] = 409
         /\ (pc[w] \in {"rmlocal", "release", "done"} /\ failedAt[w] # "none")
              <=> status[w] = 500
         /\ (pc[w] \in {"rmlocal", "release", "done"} /\ acqRes[w] = "ok"
               /\ failedAt[w] = "none") <=> status[w] = 200
         /\ status[w] = 200 => bucket[req[w].database_name] # NoObject)
  /\ [][\A w \in Workers :
          /\ pc[w] = "done" => (pc'[w] = "done" /\ status'[w] = status[w])
          /\ (pc[w] = "upload" /\ pc'[w] = "rmlocal")
               => (status'[w] = 200 => bucket'[req[w].database_name] = localFile[w])]_vars

\* one invocation completed its cycle with 200 and the other, which met its
\* lease, got 409
C13_Witness ==
  \E v, w \in Workers :
    /\ pc[v] = "done" /\ Response(v).StatusCode = 200 /\ relRes[v] = "ok"
    /\ pc[w] = "done" /\ Response(w).StatusCode = 409 /\ existing[w] = OwnItem(v)

\* C14: a failure of the lock store during the acquire (GetItem or PutItem
\* fails for a reason other than the condition) is reported differently from
\* the conflict reported when another holder has the lease or won the put.
C14_LockServiceErrorDistinct ==
  \A v, w \in Workers :
    (acqRes[v] \in {"check", "puterr"} /\ acqRes[w] \in {"locked", "race"})
      => Outcome(v) # Outcome(w)

\* C15: every conflict answer of the acquire names the holder and an expiry
\* that is not in the past, also the answer given to the loser of the
\* conditional put.
C15_ConflictCarriesHolder ==
  [][\A w \in Workers :
       (acqRes[w] = "none" /\ acqRes'[w] \in {"locked", "race"})
         => /\ Response(w)'.instance # NoHolder
            /\ Response(w)'.until >= Unix(clk)]_vars

\* C16: when uploadToS3 fails after a successful executeSQL, what Handler
\* reports differs from what it reports for a download failure (and for any
\* other ending), and the release of the lease is still attempted before
\* Handler returns.
C16_PublishFailureDistinct ==
  /\ [](\A v, w \in Workers :
         /\ (failedAt[v] = "upload" /\ failedAt[w] # "upload" /\ status[w] # 0)
              => Outcome(v) # Outcome(w)
         /\ failedAt[v] = "upload"
              => (Response(v).StatusCode = 500 /\ pc[v] \in {"rmlocal", "release", "done"})
         /\ (failedAt[v] = "upload" /\ pc[v] = "done") => relRes[v] # "none")
  /\ [][\A w \in Workers :
          (pc[w] = "release" /\ pc'[w] = "done" /\ failedAt[w] = "upload"
             /\ relRes'[w] # "error" /\ lockTable[req[w].database_name] = OwnItem(w))
            => lockTable'[req[w].database_name] = NoItem]_vars

\* one invocation's upload failed and it has released its lease; the other's
\* download failed
C16_Witness ==
  \E v, w \in Workers :
    /\ pc[v] = "done" /\ failedAt[v] = "upload" /\ relRes[v] = "ok"
    /\ pc[w] = "done" /\ failedAt[w] = "download"
    /\ Response(v).StatusCode = Response(w).StatusCode
    /\ Response(v).Error # Response(w).Error

\* C17: a lease is held at every instant now <= lease_timeout: an acquire that
\* reads the clock at such an instant, the instant now = lease_timeout
\* included, answers the conflict; the item is reclaimable only when
\* now > lease_timeout.
C17_ExpiryBoundary ==
  [][\A w \in Workers :
       (pc[w] = "check" /\ pc'[w] # "check"
          /\ clk <= existing[w].lease_timeout * TicksPerSec)
         => (acqRes'[w] = "locked" /\ status'[w] = 409)]_vars

\* the invocations that generated an instance id
WithId == {w \in Workers : pc[w] # "idle" /\ status[w] # 400}

\* C18: every invocation has an instance id of its own, also two invocations
\* that read the same clock value when they generate it; so a conditional
\* DeleteItem never matches an item another invocation wrote.
C18_UniqueInstanceId ==
  \A v, w \in WithId : v # w => instanceID[v] # instanceID[w]

\* C19: a cycle with a read-only statement leaves the object as it was
\* downloaded: the local file is the object's content, executeSQL of the
\* SELECT leaves the file as it is, nothing else touches it, and the upload
\* stores that file.
C19_ReadOnlyRoundTrip ==
  [][\A w \in Workers :
       (pc[w] # "idle" /\ IsSelect(req[w].sql_statement)) =>
         /\ (pc[w] = "download" /\ pc'[w] = "exec")
              => localFile'[w] = bucket[req[w].database_name]
         /\ (pc[w] = "exec" /\ pc'[w] = "upload") => localFile'[w] = localFile[w]
         /\ (pc[w] \in {"exec", "upload"} /\ pc'[w] = pc[w]) => localFile'[w] = localFile[w]
         /\ (pc[w] = "upload" /\ status'[w] = 200)
              => bucket'[req[w].database_name] = localFile[w]]_vars

\* an invocation has uploaded after a SELECT on a database that holds the
\* other invocation's row, and the object still holds exactly that row
C19_Witness ==
  \E v, w \in Workers :
    /\ v # w
    /\ pc[v] = "done" /\ status[v] = 200 /\ req[v].sql_statement = "INSERT"
    /\ pc[w] = "rmlocal" /\ status[w] = 200 /\ genSeen[w] = 1
    /\ IsSelect(req[w].sql_statement) /\ req[w].database_name = req[v].database_name
    /\ localFile[w] = Database({v})
    /\ bucket[req[w].database_name] = Database({v})

\* C20: databases are independent: the item an acquire meets is the item of
\* its own database, a conflict is answered only because of that database's
\* item, a step of an invocation changes neither the lock item nor the object
\* of another database, and invocations for different databases are in their
\* cycles at the same time.
C20_ResourceIndependence ==
  /\ [](\A w \in Workers :
         (pc[w] # "idle" /\ existing[w] # NoItem)
           => existing[w].database_name = req[w].database_name)
  /\ [][\A w \in Workers :
          /\ \A r \in Resources :
               (pc[w] # "idle" /\ pc'[w] # pc[w] /\ r # req[w].database_name)
                 => (lockTable'[r] = lockTable[r] /\ bucket'[r] = bucket[r])
          /\ (acqRes[w] = "none" /\ acqRes'[w] = "locked")
               => existing[w].database_name = req[w].database_name
          /\ (acqRes[w] = "none" /\ acqRes'[w] = "race")
               => lockTable[req[w].database_name] # NoItem
          /\ (pc[w] = "put" /\ pc'[w] # "put" /\ acqRes'[w] # "puterr"
                /\ lockTable[req[w].database_name] = NoItem)
               => acqRes'[w] = "ok"]_vars

\* two invocations for different databases hold their leases and are in
\* their cycles at once
C20_Witness ==
  \E v, w \in Workers :
    /\ InCycle(v) /\ InCycle(w)
    /\ req[v].database_name # req[w].database_name
    /\ lockTable[req[v].database_name] = OwnItem(v)
    /\ lockTable[req[w].database_name] = OwnItem(w)
    /\ pc[v] = "exec"

\* C27: after an invocation that acquired the lease has returned, its local
\* working copy does not exist, on every path, the path of a download that
\* failed after the local file was created included.
C27_LocalCopyDiscarded ==
  \A w \in Workers : (pc[w] = "done" /\ acqRes[w] = "ok") => localFile[w] = NoFile

\* C28: an invocation goes through acquire, download, execute, upload and
\* release in that order and never back; it is at its upload only coming from
\* a successful executeSQL, at its release only after the upload ended or was
\* skipped, its own release is the only step with which it deletes its item,
\* and once it has returned its outcome stays.
C28_ForwardOnlyCycle ==
  [][\A w \in Workers :
       /\ pc'[w] # pc[w] => Rank(pc'[w]) > Rank(pc[w])
       /\ (pc'[w] = "download" /\ pc[w] # "download") => (pc[w] = "put" /\ acqRes'[w] = "ok")
       /\ (pc'[w] = "exec" /\ pc[w] # "exec") => pc[w] = "download"
       /\ (pc'[w] = "upload" /\ pc[w] # "upload")
            => (pc[w] = "exec" /\ ~EngineRejects(req[w].sql_statement)
                  /\ failedAt'[w] = "none")
       /\ (pc'[w] = "release" /\ pc[w] # "release")
            => \/ pc[w] = "rmlocal" /\ (status[w] = 200 \/ failedAt[w] \in {"exec", "upload"})
               \/ pc[w] = "download" /\ failedAt'[w] = "download"
       /\ (pc[w] \in CriticalSection \ {"release"} /\ pc'[w] # pc[w]
             /\ lockTable[req[w].database_name] = OwnItem(w))
            => lockTable'[req[w].database_name] = OwnItem(w)
       /\ pc[w] \in {"done", "crashed"}
            => (pc'[w] = pc[w] /\ status'[w] = status[w] /\ relRes'[w] = relRes[w])]_vars

\* an invocation went the whole way: it acquired, downloaded, executed,
\* uploaded, removed its copy, released and returned 200
C28_Witness ==
  \E w \in Workers :
    /\ pc[w] = "done" /\ status[w] = 200 /\ acqRes[w] = "ok" /\ relRes[w] = "ok"
    /\ req[w].sql_statement = "INSERT" /\ w \in bucket[req[w].database_name].rows
    /\ localFile[w] = NoFile /\ lockTable[req[w].database_name] = NoItem

\* C29: the response is fixed before the deferred release runs: whether
\* releaseDynamoLock deletes the item, fails because another holder has the
\* item, or fails in the store, Handler returns the status and the body it
\* had, and every one of the three can happen after every outcome of the
\* cycle.
C29_ReleaseNeverEscalated ==
  [][\A w \in Workers :
       (pc[w] = "release" /\ pc'[w] = "done")
         => /\ relRes'[w] \in {"ok", "notholder", "error"}
            /\ status'[w] = status[w] /\ status[w] \in {200, 500}
            /\ Response(w)' = Response(w)
            /\ failedAt'[w] = failedAt[w]]_vars

\* two invocations returned 200: the release of one found the other's item,
\* the release of the other failed in the store
C29_Witness ==
  \E v, w \in Workers :
    /\ pc[v] = "done" /\ relRes[v] = "notholder" /\ Response(v).StatusCode = 200
    /\ pc[w] = "done" /\ relRes[w] = "error" /\ Response(w).StatusCode = 200

\* C30: no lost update: once every invocation has returned, the object of a
\* database holds the row of every INSERT whose invocation returned 200.
C30_NoLostUpdate ==
  (\A w \in Workers : pc[w] = "done")
    => \A w \in Workers :
         (status[w] = 200 /\ req[w].sql_statement = "INSERT")
           => w \in bucket[req[w].database_name].rows

\* C21: executeSQL returns a row set for every read-only statement and the
\* affected-row outcome for every mutating statement, whatever the letter
\* case of the keyword and whatever white space or comments come before it.
C21_ClassifiedByEffect ==
  sqlResult # "none"
    => /\ EffectOf(sqlStatement) = "read" => sqlResult = "rows"
       /\ EffectOf(sqlStatement) = "write" => sqlResult = "affected"

\* the item of r is a lease whose expiry is in the future
LiveLease(r) == lockTable[r] # NoItem /\ lockTable[r].lease_timeout * TicksPerSec > clk

\* C31: with instance ids that differ from one invocation to the other, the
\* DeleteItem that acquireDynamoLock issues for the expired item it observed
\* never removes an item whose lease expiry is in the future, it removes
\* nothing but the item it observed, and the put of a successful acquire
\* finds no item: it replaces no lease.
C31_ReclaimSparesLiveLease ==
  [][\A w \in Workers :
       LET r == req[w].database_name IN
       /\ (pc[w] = "del" /\ pc'[w] = "mk" /\ DistinctIds(Callers(r)))
            => /\ LiveLease(r) => lockTable' = lockTable
               /\ lockTable' # lockTable
                    => (lockTable[r] = existing[w] /\ ~LeaseStillValid(existing[w], clk)
                          /\ lockTable' = [lockTable EXCEPT ![r] = NoItem])
       /\ (acqRes[w] = "none" /\ acqRes'[w] = "ok")
            => (~LiveLease(r) /\ lockTable[r] = NoItem)]_vars

\* two invocations observed the item left behind; one replaced it with its
\* own lease, and the conditional delete of the other met that live lease
\* and left it in the table
C31_Witness ==
  \E v, w \in Workers :
    /\ v # w /\ instanceID[v] # instanceID[w]
    /\ existing[v] = LeftBehind(dbFileName) /\ existing[w] = LeftBehind(dbFileName)
    /\ acqRes[v] = "ok" /\ delRes[v] = "ok" /\ pc[v] \in CriticalSection
    /\ pc[w] = "mk" /\ delRes[w] = "failed"
    /\ lockTable[dbFileName] = OwnItem(v) /\ LiveLease(dbFileName)

\* C32: an acquireDynamoLock call that answers the conflict because the item
\* it read is still valid changes nothing: neither its GetItem nor its
\* comparison changes the lock table or the bucket, it issues no DeleteItem
\* and no PutItem, and Handler returns at once, with no release deferred and
\* no local file.
C32_FailedAcquireChangesNothing ==
  /\ [](\A w \in Workers :
         acqRes[w] = "locked"
           => /\ pc[w] = "done" /\ delRes[w] = "none" /\ relRes[w] = "none"
              /\ leaseTimeout[w] = 0 /\ localFile[w] = NoFile)
  /\ [][\A w \in Workers :
          /\ (pc[w] \in {"get", "check"} /\ pc'[w] # pc[w])
               => (lockTable' = lockTable /\ bucket' = bucket)
          /\ (acqRes[w] = "none" /\ acqRes'[w] = "locked")
               => (lockTable' = lockTable /\ bucket' = bucket /\ gen' = gen)
          /\ (pc[w] = "done" /\ acqRes[w] = "locked")
               => (pc'[w] = "done" /\ acqRes'[w] = "locked")]_vars

\* an invocation was refused by the lease of a holder that has downloaded
\* and run its INSERT: the holder's item (holder id, expiry, created-at) is
\* in the table as the refused invocation read it, and the object is the one
\* the bucket started with
C32_Witness ==
  \E v, w \in Workers :
    /\ v # w
    /\ acqRes[w] = "locked" /\ pc[w] = "done"
    /\ pc[v] = "upload" /\ localFile[v] = Database({v})
    /\ existing[w] = OwnItem(v) /\ lockTable[req[w].database_name] = existing[w]
    /\ bucket[req[w].database_name] = Database({})

\* the request of invocation w has no statement (a body that is not JSON
\* included)
Rejected(w) == pc[w] # "idle" /\ req[w].sql_statement = ""

\* C33: a request whose body is not JSON or whose statement is empty is
\* answered 400 in the step that parses it: that step changes neither the
\* lock table nor the bucket, the invocation has made no call to the lock
\* store or to the bucket (nothing read, deleted, put, downloaded or
\* released), and it takes no further step.
C33_ValidationBeforeStores ==
  /\ [](\A w \in Workers :
         /\ Rejected(w) => (pc[w] = "done" /\ status[w] = 400)
         /\ status[w] = 400
              => /\ Rejected(w)
                 /\ existing[w] = NoItem /\ acqRes[w] = "none" /\ delRes[w] = "none"
                 /\ relRes[w] = "none" /\ leaseTimeout[w] = 0
                 /\ localFile[w] = NoFile /\ failedAt[w] = "none")
  /\ [][\A w \in Workers :
          /\ (status[w] # 400 /\ status'[w] = 400)
               => (pc[w] = "idle" /\ lockTable' = lockTable /\ bucket' = bucket
                     /\ gen' = gen)
          /\ status[w] = 400 => (pc'[w] = "done" /\ status'[w] = 400)]_vars

\* a request without a statement was rejected while the other invocation
\* holds the lease of the same database: the holder's item and the object
\* are untouched
C33_Witness ==
  \E v, w \in Workers :
    /\ v # w
    /\ pc[v] = "exec" /\ pc[w] = "done" /\ started[v] <= started[w]
    /\ Response(w).StatusCode = 400 /\ Response(w).Error = "SQL statement is required"
    /\ req[w].database_name = req[v].database_name
    /\ lockTable[req[v].database_name] = OwnItem(v)
    /\ bucket[req[v].database_name] = Database({})

\* C34: the local working copy is removed before the lease is released: at
\* no moment does the local file of an invocation exist when that invocation
\* has given up its lease with its own release.
C34_LocalCopyGoneBeforeRelease ==
  \A w \in Workers :
    localFile[w] # NoFile => ~(pc[w] = "done" /\ relRes[w] = "ok")

\* C35: the publish of the local program is all-or-nothing: whenever no
\* process is in the middle of its copy to the store, also after a process
\* was killed or failed during that copy, the database file of the store is
\* a complete database, the previous one or the new one, never a truncated
\* or partly written file.
C35_PublishAllOrNothing ==
  (\A p \in Procs : ppc[p] # "upcopy") => storeDB # Partial

\* the goroutines that have taken a slot of the semaphore and not yet given
\* it back
Holders == {g \in Goroutines : gpc[g] \in {"exec", "lock", "read", "write", "unlock",
                                            "semrel"}}

\* the goroutines whose result has been appended
Recorded == {g \in Goroutines : gpc[g] \in {"unlock", "semrel", "wgdone", "finished"}}

\* runLoadTest has returned and every goroutine it started has ended
LoadTestDone ==
  /\ lpc = "returned"
  /\ \A g \in Goroutines : gpc[g] = IF g <= config.TotalRequests THEN "finished" ELSE "none"

C37_OneResultPerRequest ==
  /\ Len(results) = Cardinality(Recorded)
  /\ \A ok \in BOOLEAN :
       CountSuccess(results, ok) = Cardinality({g \in Recorded : result[g].Success = ok})
  /\ lpc = "returned"
       => /\ summary.TotalRequests = config.TotalRequests
          /\ summary.SuccessfulRequests + summary.FailedRequests = summary.TotalRequests
          /\ summary.SuccessfulRequests =
               Cardinality({g \in Goroutines : result[g] # NoResult /\ result[g].Success})

\* a run with as many requests as the bound allows and two slots has
\* returned, with successful and failed requests in its summary
C37_Witness ==
  /\ lpc = "returned"
  /\ config.TotalRequests = MaxRequests /\ config.Concurrency = MaxConcurrency
  /\ summary.TotalRequests = MaxRequests
  /\ summary.SuccessfulRequests > 0 /\ summary.FailedRequests > 0

====
